---- MODULE Spec2Model ----
(***************************************************************************)
(* Keras-LinkNet: the command line parser (args.py) and the training /     *)
(* evaluation driver (main.py: main, train, test).                         *)
(*                                                                         *)
(* Spec     the program as shipped: a command line goes through            *)
(*          get_arguments() and main() runs on the namespace it returns.   *)
(* SpecRun  main() from line 186 on (checkpoint path, resume, train(),     *)
(*          save, test()) on a namespace that carries the attributes       *)
(*          main() reads there: checkpoint_dir, resume, initial_epoch.     *)
(*          get_arguments() of args.py defines none of the three, so       *)
(*          under Spec this part of main() is never reached.               *)
(*                                                                         *)
(* Floats are exact rationals <<numerator, denominator>>; class weights    *)
(* are integers in thousandths. Model parameters and optimizer state are   *)
(* opaque handles [origin, steps].                                         *)
(***************************************************************************)
EXTENDS Integers, Sequences, FiniteSets, TLC

VARIABLES
    argv,              \* the command line: option -> <<>> (absent) or <<string>>
    args,              \* main: args (the Namespace), None before parsing
    pc,                \* position in main() / train()
    error,             \* the exception that ended the run, "" while none
    reads,             \* number of dataset batch reads / passes so far
    estimated,         \* which estimator of data.utils ran: "enet", "mfb", ""
    computed_weights,  \* class_weights as the estimator returned them (line 158)
    class_weights,     \* main: class_weights
    checkpoint_path,   \* main: checkpoint_path
    disk,              \* the file system: path -> file
    model,             \* main: model / train: model
    call,              \* the arguments train() was called with
    epoch,             \* fit_generator: the epoch counter
    ran,               \* the epochs entered so far, in order
    train_returned,    \* TRUE once train() has returned
    saves,             \* the paths model.save() wrote, in order
    reported           \* what test() printed: <<metric name, value>> pairs

vars == <<argv, args, pc, error, reads, estimated, computed_weights,
          class_weights, checkpoint_path, disk, model, call, epoch, ran,
          train_returned, saves, reported>>

(***************************************************************************)
(* Bounds                                                                  *)
(***************************************************************************)
NumClasses == 3
MaxEpochs == 3
MaxDecayEpochs == 2

None == [kind |-> "None"]
\* checkpoint_path before line 186 binds it
NoPath == <<>>
\* class_weights while no line has bound it (before line 150, and throughout
\* a run whose mode skips lines 125-167)
Unbound == [kind |-> "unbound"]

(***************************************************************************)
(* Python values                                                           *)
(***************************************************************************)
\* str.lower() on the strings that occur on the modelled command lines
Lower(s) ==
    CASE s = "ENet" -> "enet"
      [] s = "MFB" -> "mfb"
      [] s = "CamVid" -> "camvid"
      [] OTHER -> s

\* bool(s) for a string s, which is what argparse's type=bool computes
PyBool(s) == s # ""

HasAttr(ns, a) == a \in DOMAIN ns

\* os.path.join(d, n, f) of relative components, kept as its components
PathJoin(d, n, f) == <<d, n, f>>

\* name + '.h5'
H5Name(n) == <<n, ".h5">>

RMul(a, b) == <<a[1] * b[1], a[2] * b[2]>>

RECURSIVE RPow(_, _)
RPow(a, k) == IF k = 0 THEN <<1, 1>> ELSE RMul(a, RPow(a, k - 1))

(***************************************************************************)
(* args.py: get_arguments                                                  *)
(***************************************************************************)
Given(av, o) == av[o] # <<>>

ModeChoices == {"train"}
DatasetChoices == {"camvid"}
WeighingChoices == {"enet", "mfb", "none"}

\* variant: --weighing declared without choices
WeighingUnchecked(v) == TRUE
\* line 76: choices of --weighing
WeighingAccepted(v) == v \in WeighingChoices

\* an option given on the command line is checked against its choices; a
\* default is not. An option the parser does not define is an error.
ParserRejects(av) ==
    \/ Given(av, "unknown")
    \/ Given(av, "mode") /\ av["mode"][1] \notin ModeChoices
    \/ Given(av, "dataset") /\ av["dataset"][1] \notin DatasetChoices
    \/ Given(av, "weighing") /\ ~WeighingAccepted(av["weighing"][1])

OptOr(av, o, default) == IF Given(av, o) THEN av[o][1] ELSE default

IgnoreUnlabelledValue(av) ==
    IF Given(av, "ignore_unlabelled")
    THEN PyBool(av["ignore_unlabelled"][1])
    ELSE TRUE

get_arguments(av) ==
    [mode |-> OptOr(av, "mode", "train"),
     batch_size |-> 10,
     epochs |-> 300,
     learning_rate |-> <<5, 10000>>,
     lr_decay |-> <<1, 10>>,
     lr_decay_epochs |-> 100,
     dataset |-> OptOr(av, "dataset", "camvid"),
     dataset_dir |-> "data/CamVid",
     weighing |-> OptOr(av, "weighing", "ENet"),
     ignore_unlabelled |-> IgnoreUnlabelledValue(av),
     workers |-> 4,
     verbose |-> 1,
     name |-> OptOr(av, "name", "LinkNet"),
     save_dir |-> OptOr(av, "save_dir", "checkpoints")]

(***************************************************************************)
(* Inputs                                                                  *)
(***************************************************************************)
ModeWords == {"train", "full"}
DatasetWords == {"camvid", "cityscapes", "kitti"}
WeighingWords == {"enet", "mfb", "none", "ENet", "median"}
IgnoreWords == {"True", "False", "false", "0", ""}
NameWords == {"exp1"}
DirWords == {"out"}
UnknownWords == {"--resume"}

Maybe(S) == {<<>>} \cup {<<s>> : s \in S}

CommandLines ==
    [mode : Maybe(ModeWords), dataset : Maybe(DatasetWords),
     weighing : Maybe(WeighingWords),
     ignore_unlabelled : Maybe(IgnoreWords), name : Maybe(NameWords),
     save_dir : Maybe(DirWords), unknown : Maybe(UnknownWords)]

\* what a pass over the dataset can make the estimators return (thousandths)
EnetValues == {1500, 9000}
MfbValues == {0, 1000}
Vector(xs) == [kind |-> "list", w |-> xs]
EnetVectors == {Vector(xs) : xs \in [1..NumClasses -> EnetValues]}
MfbVectors == {Vector(xs) : xs \in [1..NumClasses -> MfbValues]}

(***************************************************************************)
(* data.utils (not part of the sources at hand): the two estimators, as    *)
(* the specification describes them. ds is what the pass over the dataset  *)
(* yields; the weights themselves are opaque here.                         *)
(***************************************************************************)
enet_weighing(ds) == ds
median_freq_balancing(ds) == ds

(***************************************************************************)
(* main.py: main, lines 108-189                                            *)
(***************************************************************************)
Raise(e) ==
    /\ pc' = "error"
    /\ error' = e

\* line 110
Parse ==
    /\ pc = "start"
    /\ IF ParserRejects(argv)
       THEN /\ Raise("SystemExit")
            /\ args' = args
       ELSE /\ args' = get_arguments(argv)
            /\ pc' = "select_dataset"
            /\ error' = error
    /\ UNCHANGED <<argv, reads, estimated, computed_weights, class_weights,
                   checkpoint_path, disk, model, call, epoch, ran,
                   train_returned, saves, reported>>

SupportedByMain == {"camvid", "cityscapes"}

\* lines 113-121
SelectDataset ==
    /\ pc = "select_dataset"
    /\ IF Lower(args.dataset) \in SupportedByMain
       THEN /\ pc' = "train_data"
            /\ error' = error
       ELSE Raise("RuntimeError")
    /\ UNCHANGED <<argv, args, reads, estimated, computed_weights,
                   class_weights, checkpoint_path, disk, model, call, epoch,
                   ran, train_returned, saves, reported>>

TrainModes == {"train", "full"}
TestModes == {"test", "full"}

\* lines 124-142: the loaders, and train_generator[0]
InitTrainData ==
    /\ pc = "train_data"
    /\ IF Lower(args.mode) \in TrainModes
       THEN /\ reads' = reads + 1
            /\ pc' = "weights"
       ELSE /\ reads' = reads
            /\ pc' = "test_data"
    /\ UNCHANGED <<argv, args, error, estimated, computed_weights,
                   class_weights, checkpoint_path, disk, model, call, epoch,
                   ran, train_returned, saves, reported>>

\* lines 149-156: the estimator args.weighing selects, "" for none of them
SelectedEstimator(weighing) ==
    IF Lower(weighing) = "enet" THEN "enet"
    ELSE IF Lower(weighing) = "mfb" THEN "mfb"
    ELSE ""

\* lines 144-158 (get_arguments never returns weighing = None: line 157 is
\* the same outcome as line 156)
ComputeWeights ==
    /\ pc = "weights"
    /\ LET est == SelectedEstimator(args.weighing)
           outcomes == IF est = "enet" THEN {enet_weighing(ds) : ds \in EnetVectors}
                       ELSE IF est = "mfb"
                            THEN {median_freq_balancing(ds) : ds \in MfbVectors}
                            ELSE {None}
       IN /\ \E w \in outcomes :
                /\ class_weights' = w
                /\ computed_weights' = w
          /\ estimated' = est
          /\ reads' = IF est = "" THEN reads ELSE reads + 1
    /\ pc' = "ignore_unlabelled"
    /\ UNCHANGED <<argv, args, error, checkpoint_path, disk, model, call,
                   epoch, ran, train_returned, saves, reported>>

\* class_weights[-1] = 0
ZeroLast(cw) == [cw EXCEPT !.w[Len(cw.w)] = 0]

\* lines 160-165
HandleUnlabelled(cw, ns) ==
    IF cw # None /\ ns.ignore_unlabelled /\ Lower(ns.dataset) = "camvid"
    THEN ZeroLast(cw)
    ELSE cw

\* lines 160-167
IgnoreUnlabelled ==
    /\ pc = "ignore_unlabelled"
    /\ class_weights' = HandleUnlabelled(class_weights, args)
    /\ pc' = "test_data"
    /\ UNCHANGED <<argv, args, error, reads, estimated, computed_weights,
                   checkpoint_path, disk, model, call, epoch, ran,
                   train_returned, saves, reported>>

\* lines 170-184
InitTestData ==
    /\ pc = "test_data"
    /\ reads' = IF Lower(args.mode) \in TestModes THEN reads + 1 ELSE reads
    /\ pc' = "checkpoint_path"
    /\ UNCHANGED <<argv, args, error, estimated, computed_weights,
                   class_weights, checkpoint_path, disk, model, call, epoch,
                   ran, train_returned, saves, reported>>

\* lines 186-189: args.checkpoint_dir is read first
CheckpointPath ==
    /\ pc = "checkpoint_path"
    /\ IF HasAttr(args, "checkpoint_dir")
       THEN /\ checkpoint_path' =
                   PathJoin(args.checkpoint_dir, args.name, H5Name(args.name))
            /\ pc' = "resume"
            /\ error' = error
       ELSE /\ Raise("AttributeError")
            /\ checkpoint_path' = checkpoint_path
    /\ UNCHANGED <<argv, args, reads, estimated, computed_weights,
                   class_weights, disk, model, call, epoch, ran,
                   train_returned, saves, reported>>

(***************************************************************************)
(* The model handle and the checkpoint file (keras: load_model, save)      *)
(***************************************************************************)
Absent == [kind |-> "absent"]
Corrupt == [kind |-> "corrupt"]

Handle(origin, steps) == [origin |-> origin, steps |-> steps]

\* one optimizer step per batch moves the parameters and the optimizer state
Stepped(h) == [h EXCEPT !.steps = h.steps + 1]

MetricNames == <<"loss", "acc", "mean_iou">>

\* a checkpoint written by an earlier run that trained up to saved_epoch
StoredCheckpoint(saved_epoch) ==
    [kind |-> "h5",
     params |-> Handle("checkpoint", saved_epoch),
     opt |-> [state |-> Handle("checkpoint", saved_epoch), lr |-> <<1, 4>>],
     metrics_names |-> MetricNames]

\* model.save(path): parameters, optimizer and compile arguments
Saved(m) ==
    [kind |-> "h5", params |-> m.params, opt |-> m.opt,
     metrics_names |-> m.metrics_names]

\* keras load_model on a readable file
Loaded(file) ==
    [kind |-> "Model", params |-> file.params, opt |-> file.opt,
     metrics_names |-> file.metrics_names]

\* variant: a file that cannot be loaded yields no model and no error
load_model_or_fresh(file) ==
    IF file.kind = "h5"
    THEN [raised |-> "", model |-> Loaded(file)]
    ELSE [raised |-> "", model |-> None]
\* line 194: load_model raises on a missing or unreadable file
load_model(file) ==
    IF file.kind = "h5"
    THEN [raised |-> "", model |-> Loaded(file)]
    ELSE [raised |-> IF file.kind = "absent" THEN "OSError" ELSE "ValueError",
          model |-> None]

\* LinkNet(num_classes, input_shape).get_model(): not compiled yet
LinkNet ==
    [kind |-> "Model", params |-> Handle("LinkNet", 0), opt |-> None,
     metrics_names |-> <<>>]

\* Adam(learning_rate)
Adam(lr) == [state |-> Handle("Adam", 0), lr |-> lr]

(***************************************************************************)
(* main.py: main, lines 191-224, and train, test                           *)
(***************************************************************************)
\* lines 191-200
Resume ==
    /\ pc = "resume"
    /\ IF ~HasAttr(args, "resume")
       THEN /\ Raise("AttributeError")
            /\ model' = None
       ELSE IF args.resume
            THEN LET got == load_model(disk[checkpoint_path])
                 IN IF got.raised # ""
                    THEN /\ Raise(got.raised)
                         /\ model' = None
                    ELSE /\ model' = got.model
                         /\ pc' = "train_call"
                         /\ error' = error
            ELSE /\ model' = None
                 /\ pc' = "train_call"
                 /\ error' = error
    /\ UNCHANGED <<argv, args, reads, estimated, computed_weights,
                   class_weights, checkpoint_path, disk, call, epoch, ran,
                   train_returned, saves, reported>>

\* lines 204-217: the arguments main hands to train
TrainArguments(ns, cw, m) ==
    [epochs |-> ns.epochs, initial_epoch |-> ns.initial_epoch,
     class_weights |-> cw, learning_rate |-> ns.learning_rate,
     lr_decay |-> ns.lr_decay, lr_decay_epochs |-> ns.lr_decay_epochs,
     checkpoint_model |-> m]

\* lines 202-217: the call of train
TrainCall ==
    /\ pc = "train_call"
    /\ IF Lower(args.mode) \in TrainModes
       THEN IF HasAttr(args, "initial_epoch")
            THEN /\ call' = TrainArguments(args, class_weights, model)
                 /\ pc' = "train_create"
                 /\ error' = error
            ELSE /\ Raise("AttributeError")
                 /\ call' = call
       ELSE /\ pc' = "test_call"
            /\ call' = call
            /\ error' = error
    /\ UNCHANGED <<argv, args, reads, estimated, computed_weights,
                   class_weights, checkpoint_path, disk, model, epoch, ran,
                   train_returned, saves, reported>>

\* lines 34-37
CreateModel(c) ==
    IF c.checkpoint_model = None THEN LinkNet ELSE c.checkpoint_model

\* lines 31-39
TrainCreate ==
    /\ pc = "train_create"
    /\ reads' = reads + 1
    /\ model' = CreateModel(call)
    /\ pc' = "train_compile"
    /\ UNCHANGED <<argv, args, error, estimated, computed_weights,
                   class_weights, checkpoint_path, disk, call, epoch, ran,
                   train_returned, saves, reported>>

\* lines 42-53: compile replaces the model's optimizer and metrics
Compile(m, optim) == [m EXCEPT !.opt = optim, !.metrics_names = MetricNames]

TrainCompile ==
    /\ pc = "train_compile"
    /\ model' = Compile(model, Adam(call.learning_rate))
    /\ pc' = "fit"
    /\ UNCHANGED <<argv, args, error, reads, estimated, computed_weights,
                   class_weights, checkpoint_path, disk, call, epoch, ran,
                   train_returned, saves, reported>>

\* variant: training always starts over at epoch 0
FirstEpochZero(c) == 0
\* line 82: fit_generator starts its epoch counter at initial_epoch
FirstEpoch(c) == c.initial_epoch

\* line 78: fit_generator is entered
FitBegin ==
    /\ pc = "fit"
    /\ epoch' = FirstEpoch(call)
    /\ pc' = "fit_loop"
    /\ UNCHANGED <<argv, args, error, reads, estimated, computed_weights,
                   class_weights, checkpoint_path, disk, model, call, ran,
                   train_returned, saves, reported>>

\* variant: the decay is applied to the rate the optimizer holds
lr_decay_compounding(c, e, lr) ==
    RMul(RPow(c.lr_decay, e \div c.lr_decay_epochs), lr)
\* lines 56-57: _lr_decay(epoch, lr) in the closure c of train's arguments
lr_decay_schedule(c, e, lr) ==
    RMul(RPow(c.lr_decay, e \div c.lr_decay_epochs), c.learning_rate)

\* lines 59, 83: LearningRateScheduler sets the optimizer's rate when an epoch
\* begins; epoch // 0 raises
EpochBegin ==
    /\ pc = "fit_loop"
    /\ epoch < call.epochs
    /\ IF call.lr_decay_epochs = 0
       THEN /\ Raise("ZeroDivisionError")
            /\ UNCHANGED <<model, ran>>
       ELSE /\ model' = [model EXCEPT
                           !.opt.lr = lr_decay_schedule(call, epoch, model.opt.lr)]
            /\ ran' = Append(ran, epoch)
            /\ pc' = "epoch_batches"
            /\ error' = error
    /\ UNCHANGED <<argv, args, reads, estimated, computed_weights,
                   class_weights, checkpoint_path, disk, call, epoch,
                   train_returned, saves, reported>>

\* lines 78-88: one pass over the training batches, then validation
EpochBatches ==
    /\ pc = "epoch_batches"
    /\ model' = [model EXCEPT !.params = Stepped(model.params),
                              !.opt.state = Stepped(model.opt.state)]
    /\ reads' = reads + 1
    /\ epoch' = epoch + 1
    /\ pc' = "fit_loop"
    /\ UNCHANGED <<argv, args, error, estimated, computed_weights,
                   class_weights, checkpoint_path, disk, call, ran,
                   train_returned, saves, reported>>

\* lines 78-88: a batch that cannot be read ends fit_generator, train and main
EpochFail ==
    /\ pc = "epoch_batches"
    /\ Raise("DataError")
    /\ UNCHANGED <<argv, args, reads, estimated, computed_weights,
                   class_weights, checkpoint_path, disk, model, call, epoch,
                   ran, train_returned, saves, reported>>

\* lines 88-90: the loop is over, train returns the model
TrainReturn ==
    /\ pc = "fit_loop"
    /\ epoch >= call.epochs
    /\ train_returned' = TRUE
    /\ pc' = "save"
    /\ UNCHANGED <<argv, args, error, reads, estimated, computed_weights,
                   class_weights, checkpoint_path, disk, model, call, epoch,
                   ran, saves, reported>>

\* lines 219-220
Save ==
    /\ pc = "save"
    /\ disk' = [disk EXCEPT ![checkpoint_path] = Saved(model)]
    /\ saves' = Append(saves, checkpoint_path)
    /\ pc' = "test_call"
    /\ UNCHANGED <<argv, args, error, reads, estimated, computed_weights,
                   class_weights, checkpoint_path, model, call, epoch, ran,
                   train_returned, reported>>

\* line 94: evaluate_generator returns one value per compiled metric
evaluate_generator(m) ==
    [i \in DOMAIN m.metrics_names |->
        [metric |-> m.metrics_names[i], of |-> m.params]]

\* variant: the evaluation pass also takes an optimizer step
test_fitting(m) ==
    [printed |-> [i \in DOMAIN evaluate_generator(m) |->
                    <<m.metrics_names[i], evaluate_generator(m)[i]>>],
     returns |-> [m EXCEPT !.params = Stepped(m.params)]]
\* lines 93-105
test(m) ==
    [printed |-> [i \in DOMAIN evaluate_generator(m) |->
                    <<m.metrics_names[i], evaluate_generator(m)[i]>>],
     returns |-> m]

\* lines 222-224
TestCall ==
    /\ pc = "test_call"
    /\ IF Lower(args.mode) \in TestModes
       THEN IF model = None
            THEN /\ Raise("AssertionError")
                 /\ UNCHANGED <<model, reported, reads>>
            ELSE /\ model' = test(model).returns
                 /\ reported' = test(model).printed
                 /\ reads' = reads + 1
                 /\ pc' = "done"
                 /\ error' = error
       ELSE /\ pc' = "done"
            /\ UNCHANGED <<model, reported, reads, error>>
    /\ UNCHANGED <<argv, args, estimated, computed_weights, class_weights,
                   checkpoint_path, disk, call, epoch, ran, train_returned,
                   saves>>

(***************************************************************************)
(* Initial states                                                          *)
(***************************************************************************)
CheckpointDirs == {"out"}
ModelNames == {"LinkNet", "exp1"}
Paths ==
    {PathJoin(d, n, H5Name(n)) :
        d \in CheckpointDirs \cup DirWords \cup {"checkpoints"},
        n \in ModelNames \cup NameWords}
InitialFiles == {Absent, Corrupt, StoredCheckpoint(2), StoredCheckpoint(7)}
InitialDisks == {[p \in Paths |-> f] : f \in InitialFiles}

InitCommon ==
    /\ error = ""
    /\ checkpoint_path = NoPath
    /\ model = None
    /\ call = None
    /\ epoch = 0
    /\ ran = <<>>
    /\ train_returned = FALSE
    /\ saves = <<>>
    /\ reported = <<>>

Init ==
    /\ argv \in CommandLines
    /\ args = None
    /\ pc = "start"
    /\ reads = 0
    /\ estimated = ""
    /\ computed_weights = Unbound
    /\ class_weights = Unbound
    /\ disk \in InitialDisks
    /\ InitCommon

Next ==
    \/ Parse
    \/ SelectDataset
    \/ InitTrainData
    \/ ComputeWeights
    \/ IgnoreUnlabelled
    \/ InitTestData
    \/ CheckpointPath

Spec == Init /\ [][Next]_vars

\* namespaces that carry what main reads from line 186 on
LearningRates == {<<1, 2000>>, <<1, 100>>}
DecayFactors == {<<1, 10>>, <<1, 2>>}
RunNamespaces ==
    [mode : TrainModes \cup TestModes,
     epochs : 0..MaxEpochs,
     initial_epoch : 0..MaxEpochs,
     learning_rate : LearningRates,
     lr_decay : DecayFactors,
     lr_decay_epochs : 0..MaxDecayEpochs,
     dataset : {"camvid"},
     weighing : {"enet"},
     ignore_unlabelled : {TRUE},
     name : ModelNames,
     checkpoint_dir : CheckpointDirs,
     resume : BOOLEAN]

\* lines 124-184 as run on ns: the batches read (line 133, the estimator's
\* pass, line 176)
ReadsBeforePath(ns) ==
    (IF Lower(ns.mode) \in TrainModes
     THEN 1 + (IF SelectedEstimator(ns.weighing) = "" THEN 0 ELSE 1)
     ELSE 0)
    + (IF Lower(ns.mode) \in TestModes THEN 1 ELSE 0)

\* main at line 186, after lines 113-184 ran on args: in the training modes
\* the estimator has run and the class weights are settled; in mode test
\* lines 125-167 were skipped, only the test batch was read
InitRun ==
    /\ argv = None
    /\ args \in RunNamespaces
    /\ pc = "checkpoint_path"
    /\ reads = ReadsBeforePath(args)
    /\ IF Lower(args.mode) \in TrainModes
       THEN /\ estimated = SelectedEstimator(args.weighing)
            /\ computed_weights \in
                  {enet_weighing(Vector([c \in 1..NumClasses |-> 1500]))}
            /\ class_weights = HandleUnlabelled(computed_weights, args)
       ELSE /\ estimated = ""
            /\ computed_weights = Unbound
            /\ class_weights = Unbound
    /\ disk \in InitialDisks
    /\ InitCommon

NextRun ==
    \/ CheckpointPath
    \/ Resume
    \/ TrainCall
    \/ TrainCreate
    \/ TrainCompile
    \/ FitBegin
    \/ EpochBegin
    \/ EpochBatches
    \/ EpochFail
    \/ TrainReturn
    \/ Save
    \/ TestCall

SpecRun == InitRun /\ [][NextRun]_vars

\* main is one sequential thread: a step that can be taken is taken
SpecRunFair == SpecRun /\ WF_vars(NextRun)

(***************************************************************************)
(* Claims                                                                  *)
(***************************************************************************)
Max(a, b) == IF a >= b THEN a ELSE b

\* the epochs entered are initial_epoch, initial_epoch + 1, ... below epochs
EpochsInOrder ==
    \A i \in DOMAIN ran :
        /\ ran[i] = call.initial_epoch + i - 1
        /\ ran[i] < call.epochs

\* once train has returned, every epoch of [initial_epoch, epochs) was entered
AllEpochsRan ==
    train_returned =>
        Len(ran) = Max(0, call.epochs - call.initial_epoch)

\* C1 as stated: train() enters Running(epoch=i) exactly once for each i in
\* [initial_epoch, epochs), in increasing order from the caller's
\* initial_epoch, never an epoch outside the range, and it completes with the
\* epoch counter equal to epochs, for every epochs and initial_epoch.
C1_CompletedAtEpochs ==
    /\ EpochsInOrder
    /\ AllEpochsRan
    /\ train_returned => epoch = call.epochs

\* C1 amended: as C1, but train() completes with the epoch counter at epochs
\* only when initial_epoch <= epochs; when initial_epoch > epochs no epoch is
\* entered and train() completes with the counter still at initial_epoch.
\* Once fit_generator is entered, train() does return unless an epoch raises.
C1_CompletedAtMax ==
    /\ [](/\ EpochsInOrder
          /\ AllEpochsRan
          /\ train_returned => epoch = Max(call.epochs, call.initial_epoch))
    /\ (pc = "fit") ~> (train_returned \/ pc = "error")

\* a run resumed from a checkpoint at initial_epoch 1 that ran epochs 1 and 2
C1_Witness ==
    /\ train_returned
    /\ call.checkpoint_model # None
    /\ ran = <<1, 2>>

\* learning_rate * lr_decay^(i // lr_decay_epochs)
StaircaseRate(rate, decay, every, i) == RMul(rate, RPow(decay, i \div every))

\* C2: while the batches of epoch i run, the optimizer's learning rate is
\* learning_rate * lr_decay^(i // lr_decay_epochs), whatever rate the
\* optimizer or the checkpoint held before.
C2_StaircaseRate ==
    pc = "epoch_batches" =>
        model.opt.lr = StaircaseRate(call.learning_rate, call.lr_decay,
                                     call.lr_decay_epochs, epoch)

\* epoch 2 of a resumed run whose rate decays every epoch
C2_Witness ==
    /\ pc = "epoch_batches"
    /\ epoch = 2
    /\ call.lr_decay_epochs = 1
    /\ call.initial_epoch = 0
    /\ call.checkpoint_model # None
    /\ call.checkpoint_model.opt.lr # call.learning_rate

\* C3 as stated: when a checkpoint model is supplied to train(), the first
\* epoch starts from the checkpoint's model parameters and the checkpoint's
\* optimizer state.
C3_StartsFromCheckpoint ==
    (pc = "fit_loop" /\ ran = <<>> /\ call.checkpoint_model # None) =>
        /\ model.params = call.checkpoint_model.params
        /\ model.opt.state = call.checkpoint_model.opt.state

\* the weight training applies to class c: class_weight=None weighs every
\* class 1 (thousandths)
AppliedWeight(cw, c) == IF cw = None THEN 1000 ELSE cw.w[c]

\* main has passed lines 160-167
WeightsSettled ==
    \/ pc \in {"test_data", "checkpoint_path", "resume", "train_call"}
    \/ pc = "error" /\ error = "AttributeError"

\* C4 as stated: for every weighing option, with ignore_unlabelled true the
\* weight applied to the final class is 0 and the other classes keep the
\* weights the selected algorithm produced.
C4_FinalWeightZero ==
    (WeightsSettled /\ args.ignore_unlabelled) =>
        /\ AppliedWeight(class_weights, NumClasses) = 0
        /\ \A c \in 1..(NumClasses - 1) :
              AppliedWeight(class_weights, c) = AppliedWeight(computed_weights, c)

ResumeRequested == HasAttr(args, "resume") /\ args.resume

\* C5: when resume is requested and the checkpoint is missing or cannot be
\* loaded, the run ends in the load error, train() is not entered and nothing
\* is saved; train() is never entered without a checkpoint model in a run
\* that requested resume.
C5_ResumeFailureIsFatal ==
    /\ (ResumeRequested /\ call # None) => call.checkpoint_model # None
    /\ (ResumeRequested /\ pc \notin {"checkpoint_path", "resume"}
          /\ disk[checkpoint_path].kind # "h5") =>
            /\ pc = "error"
            /\ error \in {"OSError", "ValueError"}
            /\ call = None
            /\ saves = <<>>

\* a train-mode run that asked to resume from a missing checkpoint
C5_Witness ==
    /\ ResumeRequested
    /\ Lower(args.mode) = "train"
    /\ pc = "error"
    /\ error = "OSError"
    /\ disk[checkpoint_path] = Absent

RecognizedWeighing == {"enet", "mfb", "none"}
SupportedDatasets == {"camvid"}

\* the algorithm a weighing value names, whatever its case
NamedAlgorithm(w) ==
    CASE w \in {"enet", "ENet"} -> "enet"
      [] w \in {"mfb", "MFB"} -> "mfb"
      [] w = "none" -> ""
      [] OTHER -> "unknown"

\* C6: a weighing value outside enet, mfb, none, or an unsupported dataset
\* name, ends the run in the parser's error before any batch is read and
\* before any estimator or training runs; every value that gets past the
\* parser, the default included, selects the estimator it names.
C6_ConfigurationChecked ==
    /\ ( /\ pc # "start"
         /\ \/ Given(argv, "weighing") /\ argv.weighing[1] \notin RecognizedWeighing
            \/ Given(argv, "dataset") /\ argv.dataset[1] \notin SupportedDatasets )
         => /\ pc = "error"
            /\ error = "SystemExit"
            /\ reads = 0
            /\ estimated = ""
            /\ call = None
    /\ (pc = "ignore_unlabelled" \/ WeightsSettled) =>
            estimated = NamedAlgorithm(args.weighing)

\* an unrecognized weighing value, rejected before anything is read
C6_Witness ==
    /\ argv.weighing = <<"median">>
    /\ pc = "error"
    /\ error = "SystemExit"
    /\ reads = 0

\* main has passed lines 186-189
PathSettled ==
    \/ pc \in {"resume", "train_call", "train_create", "save", "done"}
    \/ pc = "error" /\ error = "AttributeError"

\* C7 as stated: for every configuration the parser produces, the checkpoint
\* path main() works with is {save_dir}/{name}/{name}.h5, built from the
\* parsed save_dir and name, and every save writes that path.
C7_PathFromSaveDir ==
    /\ (args # None /\ PathSettled) =>
          checkpoint_path = PathJoin(args.save_dir, args.name, H5Name(args.name))
    /\ \A i \in DOMAIN saves :
          saves[i] = PathJoin(args.save_dir, args.name, H5Name(args.name))

\* the errors raised by loading the checkpoint or inside train()
AbortErrors == {"OSError", "ValueError", "ZeroDivisionError", "DataError"}

\* C8 as stated: a train-mode run writes the checkpoint exactly once, after
\* training has completed; a run that aborted while loading or training
\* saves nothing and leaves the stored checkpoint as it was.
C8_SavedOnceAfterTraining ==
    /\ saves # <<>> => train_returned /\ saves = <<checkpoint_path>>
    /\ (pc \in {"done", "error"} /\ args # None /\ Lower(args.mode) \in TrainModes) =>
          \/ error = "" /\ train_returned /\ saves = <<checkpoint_path>>
          \/ error \in AbortErrors /\ saves = <<>>

\* C9: test() leaves the model, the epoch counter and the stored checkpoint
\* as they were, returns the handle it was given, and reports one value under
\* each of the model's metric names.
C9_TestReadOnly ==
    [][(pc = "test_call" /\ pc' = "done" /\ Lower(args.mode) \in TestModes) =>
          /\ model' = model
          /\ epoch' = epoch
          /\ disk' = disk
          /\ Len(reported') = Len(model.metrics_names)
          /\ \A i \in DOMAIN model.metrics_names :
                reported'[i][1] = model.metrics_names[i]]_vars

\* test() has reported on a model that was trained in this run
C9_Witness ==
    /\ pc = "done"
    /\ Len(reported) = 3
    /\ train_returned
    /\ model.params.steps > 0

FalseWords == {"False", "false", "0"}

\* C10 as stated: when the user supplies ignore_unlabelled as false, the
\* class weights are kept exactly as the selected algorithm computed them.
C10_FalseKeepsWeights ==
    ( /\ WeightsSettled
      /\ Given(argv, "ignore_unlabelled")
      /\ argv.ignore_unlabelled[1] \in FalseWords ) =>
        class_weights = computed_weights

====
